---------------------------- MODULE Spec2Model ----------------------------
(***************************************************************************)
(* Model of src/index.js: the MCP HTTP server that exposes Google Sheets   *)
(* and Drive operations as tools.                                          *)
(*                                                                         *)
(* Strings that the code inspects character by character (range            *)
(* references, sheet titles, the Authorization header) are sequences of    *)
(* one-character strings.  Tool names, API names and message texts, which  *)
(* the code only compares or copies, are TLA+ strings.                     *)
(***************************************************************************)
EXTENDS Integers, Sequences, FiniteSets, TLC

VARIABLES
    pc,        \* position of the running operation
    op,        \* the operation this behaviour runs
    req,       \* the inbound request: [name, header, args]
    a1Range,   \* argument of parseA1ToGridRange
    target,    \* sheetName handed to getSheetIdByName
    rangeRaw,  \* rangePartRaw of parseA1ToGridRange
    token,     \* access_token set on the OAuth2 client
    calls,     \* external-service calls issued so far, in order
    metaSeen,  \* what the metadata fetch returned
    ret,       \* what the operation returned or threw
    resp,      \* the HTTP response sent
    nresp,     \* number of responses sent for the request
    letters,   \* argument of columnLettersToIndex
    colIndex   \* its result

vars == <<pc, op, req, a1Range, target, rangeRaw, token, calls, metaSeen,
          ret, resp, nresp, letters, colIndex>>

---------------------------------------------------------------------------
(* Bounds of the model *)

MaxLetters == 3
MaxNameLen == 3
MaxSheets == 2

---------------------------------------------------------------------------
(* Characters *)

UpperAlphabet ==
    << "A", "B", "C", "D", "E", "F", "G", "H", "I", "J", "K", "L", "M",
       "N", "O", "P", "Q", "R", "S", "T", "U", "V", "W", "X", "Y", "Z" >>

LowerAlphabet ==
    << "a", "b", "c", "d", "e", "f", "g", "h", "i", "j", "k", "l", "m",
       "n", "o", "p", "q", "r", "s", "t", "u", "v", "w", "x", "y", "z" >>

Digits == << "0", "1", "2", "3", "4", "5", "6", "7", "8", "9" >>

Range(s) == { s[i] : i \in 1..Len(s) }

PosIn(c, s) == CHOOSE i \in 1..Len(s) : s[i] = c

IsUpper(c) == c \in Range(UpperAlphabet)

IsLower(c) == c \in Range(LowerAlphabet)

IsDigit(c) == c \in Range(Digits)

\* /\s/ on the characters the model uses
IsSpace(c) == c = " "

\* String.prototype.charCodeAt for the characters of [A-Za-z]
charCodeAt(c) ==
    IF IsUpper(c) THEN 64 + PosIn(c, UpperAlphabet)
    ELSE 96 + PosIn(c, LowerAlphabet)

\* String.prototype.toUpperCase, one character
UpperChar(c) == IF IsLower(c) THEN UpperAlphabet[PosIn(c, LowerAlphabet)] ELSE c

toUpperCase(s) == [ i \in 1..Len(s) |-> UpperChar(s[i]) ]

\* String.prototype.toLowerCase, one character (the /i flag of a pattern)
LowerChar(c) == IF IsUpper(c) THEN LowerAlphabet[PosIn(c, UpperAlphabet)] ELSE c

toLowerCase(s) == [ i \in 1..Len(s) |-> LowerChar(s[i]) ]

\* s.slice(from - 1, to): the characters from..to, 1-based and inclusive
Slice(s, from, to) == [ i \in 1..(to - from + 1) |-> s[from + i - 1] ]

\* all sequences over alphabet of length lo..hi
SeqsOver(alphabet, lo, hi) ==
    UNION { [ 1..n -> alphabet ] : n \in lo..hi }

---------------------------------------------------------------------------
(* columnLettersToIndex, src/index.js 46-53 *)

RECURSIVE ColumnLoop(_, _, _)
\* the for loop: index *= 26; index += letters.charCodeAt(i) - 64
ColumnLoop(ls, i, index) ==
    IF i > Len(ls) THEN index
    ELSE ColumnLoop(ls, i + 1, index * 26 + (charCodeAt(ls[i]) - 64))

\* a plausible slip: the letters valued 0..25 (plain base 26)
columnLettersToIndex_Base26(ls) ==
    LET RECURSIVE Loop(_, _)
        Loop(i, index) ==
            IF i > Len(ls) THEN index
            ELSE Loop(i + 1, index * 26 + (charCodeAt(ls[i]) - 65))
    IN Loop(1, 0)

columnLettersToIndex(ls) == ColumnLoop(ls, 1, 0) - 1

\* parseInt(digits, 10) on a non-empty string of decimal digits
RECURSIVE ParseIntLoop(_, _, _)
ParseIntLoop(ds, i, acc) ==
    IF i > Len(ds) THEN acc
    ELSE ParseIntLoop(ds, i + 1, acc * 10 + (PosIn(ds[i], Digits) - 1))

parseInt(ds) == ParseIntLoop(ds, 1, 0)

---------------------------------------------------------------------------
(* Values shared by the operations *)

NoValue == [ kind |-> "none" ]

\* an Error object: its message is text followed by arg
Err(text, arg) == [ text |-> text, arg |-> arg ]

Throw(err) == [ kind |-> "throw", val |-> err ]

Return(v) == [ kind |-> "return", val |-> v ]

IdleRequest == [ name |-> "", header |-> NoValue, args |-> NoValue ]

---------------------------------------------------------------------------
(* Pieces of parseA1ToGridRange, src/index.js 55-75 *)

\* index of the first occurrence of c in s, 0 when there is none
FirstPos(s, c) ==
    IF c \in Range(s) THEN CHOOSE i \in 1..Len(s) :
                               /\ s[i] = c
                               /\ \A j \in 1..(i - 1) : s[j] # c
    ELSE 0

RECURSIVE split(_, _)
\* String.prototype.split on a one-character separator
split(s, sep) ==
    LET i == FirstPos(s, sep)
    IN  IF i = 0 THEN << s >>
        ELSE << Slice(s, 1, i - 1) >> \o split(Slice(s, i + 1, Len(s)), sep)

\* sheetPart.replace(/^'(.+)'$/, '$1'): the group needs one character at least
StripQuotes(sheetPart) ==
    IF /\ Len(sheetPart) >= 3
       /\ sheetPart[1] = "'"
       /\ sheetPart[Len(sheetPart)] = "'"
    THEN Slice(sheetPart, 2, Len(sheetPart) - 1)
    ELSE sheetPart

\* index of the last character of the longest run of characters of class
\* that starts at s[i]; i - 1 when s[i] is not in class (a greedy + or *)
RECURSIVE RunEnd(_, _, _)
RunEnd(s, i, class) ==
    IF i <= Len(s) /\ s[i] \in class THEN RunEnd(s, i + 1, class) ELSE i - 1

\* /([A-Z]+)(\d+):([A-Z]+)(\d+)/ tried at one start position.  Each group is
\* greedy, and giving characters back never helps: what follows a shorter
\* run is one more character of the run.
MatchAt(s, start) ==
    LET e1 == RunEnd(s, start, Range(UpperAlphabet))
        e2 == RunEnd(s, e1 + 1, Range(Digits))
        e3 == RunEnd(s, e2 + 2, Range(UpperAlphabet))
        e4 == RunEnd(s, e3 + 1, Range(Digits))
    IN  IF /\ e1 >= start
           /\ e2 >= e1 + 1
           /\ e2 + 1 <= Len(s)
           /\ s[e2 + 1] = ":"
           /\ e3 >= e2 + 2
           /\ e4 >= e3 + 1
        THEN [ ok |-> TRUE,
               c1 |-> Slice(s, start, e1), r1 |-> Slice(s, e1 + 1, e2),
               c2 |-> Slice(s, e2 + 2, e3), r2 |-> Slice(s, e3 + 1, e4) ]
        ELSE [ ok |-> FALSE, c1 |-> << >>, r1 |-> << >>, c2 |-> << >>, r2 |-> << >> ]

\* rangePart.match(...): the pattern is not anchored, the leftmost match wins
MatchRange(s) ==
    LET starts == { i \in 1..Len(s) : MatchAt(s, i).ok }
    IN  IF starts = {} THEN MatchAt(s, Len(s) + 1)
        ELSE MatchAt(s, CHOOSE i \in starts : \A j \in starts : i <= j)

MsgNoSheetName == "range must include sheet name, e.g., \"Sheet1!A1:B2\""

MsgBadRange == "range must be like A1:B2"

MsgSheetNotFound == "Sheet not found: "

ApiGetSpreadsheet == "sheets.spreadsheets.get"

\* the record an external call leaves in the call log
Call(api, arg) == [ api |-> api, arg |-> arg, status |-> "pending" ]

\* the last call of the log completes
Settle(log, status) == [ log EXCEPT ![Len(log)].status = status ]

---------------------------------------------------------------------------
(* getSheetIdByName, src/index.js 34-44 *)

\* the request of line 35-38
MetaFetch(sheetName) == Call(ApiGetSpreadsheet, [ sheetName |-> sheetName ])

\* (meta.data.sheets || [])
SheetsOf(meta) == IF meta.hasSheets THEN meta.sheets ELSE << >>

\* a plausible slip: the last matching sheet instead of the first
FindSheet_Last(sheets, sheetName) ==
    LET hits == { i \in 1..Len(sheets) :
                    sheets[i].hasProps /\ sheets[i].title = sheetName }
    IN  IF hits = {} THEN 0 ELSE CHOOSE i \in hits : \A j \in hits : j <= i

\* .find(s => s.properties && s.properties.title === sheetName): the index
\* of the first hit, 0 for undefined
FindSheet(sheets, sheetName) ==
    LET hits == { i \in 1..Len(sheets) :
                    sheets[i].hasProps /\ sheets[i].title = sheetName }
    IN  IF hits = {} THEN 0 ELSE CHOOSE i \in hits : \A j \in hits : i <= j

\* a plausible slip: a sheet that is not found resolves to the first tab's id
getSheetIdByName_DefaultZero(metaResp, sheetName) ==
    IF metaResp.kind = "error" THEN Throw(metaResp.err)
    ELSE LET sheets == SheetsOf(metaResp)
             i == FindSheet(sheets, sheetName)
         IN  IF i = 0 THEN Return(0) ELSE Return(sheets[i].sheetId)

\* lines 39-43 once the fetch has settled with metaResp
getSheetIdByName(metaResp, sheetName) ==
    IF metaResp.kind = "error" THEN Throw(metaResp.err)
    ELSE LET sheets == SheetsOf(metaResp)
             i == FindSheet(sheets, sheetName)
         IN  IF i = 0 THEN Throw(Err(MsgSheetNotFound, sheetName))
             ELSE Return(sheets[i].sheetId)

---------------------------------------------------------------------------
(* parseA1ToGridRange, src/index.js 55-75 *)

\* a plausible slip: a missing span is not rejected
ParseSync_NoCheck(a1) ==
    LET parts == split(a1, "!")
    IN  [ throws |-> FALSE, err |-> NoValue,
          sheetName |-> StripQuotes(parts[1]),
          rangePartRaw |-> IF Len(parts) < 2 THEN << >> ELSE parts[2] ]

\* lines 57-61: what runs before the metadata fetch is issued
ParseSync(a1) ==
    LET parts == split(a1, "!")
    IN  IF Len(parts) < 2 \/ parts[2] = << >>
        THEN [ throws |-> TRUE, err |-> Err(MsgNoSheetName, << >>),
               sheetName |-> << >>, rangePartRaw |-> << >> ]
        ELSE [ throws |-> FALSE, err |-> NoValue,
               sheetName |-> StripQuotes(parts[1]), rangePartRaw |-> parts[2] ]

GridRange(sheetId, sr, er, sc, ec) ==
    [ sheetId |-> sheetId, startRowIndex |-> sr, endRowIndex |-> er,
      startColumnIndex |-> sc, endColumnIndex |-> ec ]

\* a plausible slip: the end column left inclusive
ParseSpan_InclusiveEnd(sheetId, rangePartRaw) ==
    LET m == MatchRange(toUpperCase(rangePartRaw))
    IN  IF ~m.ok THEN Throw(Err(MsgBadRange, << >>))
        ELSE Return(GridRange(sheetId,
                              parseInt(m.r1) - 1, parseInt(m.r2),
                              columnLettersToIndex(m.c1),
                              columnLettersToIndex(m.c2)))

\* lines 64-74
ParseSpan(sheetId, rangePartRaw) ==
    LET m == MatchRange(toUpperCase(rangePartRaw))
    IN  IF ~m.ok THEN Throw(Err(MsgBadRange, << >>))
        ELSE Return(GridRange(sheetId,
                              parseInt(m.r1) - 1, parseInt(m.r2),
                              columnLettersToIndex(m.c1),
                              columnLettersToIndex(m.c2) + 1))

\* lines 62-74 once the metadata fetch has settled: the lookup first, the
\* span only after it
ParseResume(metaResp, sheetName, rangePartRaw) ==
    LET found == getSheetIdByName(metaResp, sheetName)
    IN  IF found.kind = "throw" THEN found
        ELSE ParseSpan(found.val, rangePartRaw)

---------------------------------------------------------------------------
(* What the spreadsheet service may answer to the metadata fetch *)

Sheet(title, sheetId) == [ hasProps |-> TRUE, title |-> title, sheetId |-> sheetId ]

\* an entry without properties
BareSheet == [ hasProps |-> FALSE, title |-> << >>, sheetId |-> 0 ]

SheetEntries ==
    { Sheet(<< "S" >>, 0), Sheet(<< "S" >>, 7), Sheet(<< "'", "S", "'" >>, 3),
      BareSheet }

ServiceErrors == { Err("The caller does not have permission", << >>) }

MetaResponses ==
    { [ kind |-> "error", err |-> e, hasSheets |-> FALSE, sheets |-> << >> ] :
        e \in ServiceErrors }
    \cup { [ kind |-> "ok", err |-> NoValue, hasSheets |-> FALSE, sheets |-> << >> ] }
    \cup { [ kind |-> "ok", err |-> NoValue, hasSheets |-> TRUE, sheets |-> ss ] :
             ss \in SeqsOver(SheetEntries, 0, MaxSheets) }

---------------------------------------------------------------------------
(* Range references and sheet names handed to the resolver *)

Names == SeqsOver({ "S", "'" }, 0, MaxNameLen)

Corners ==
    { << >>, << "A" >>, << "3" >>, << "b", "0" >>, << "A", "Z", "1", "2" >> }

Spans ==
    { j \o c1 \o sep \o c2 :
        j \in { << >>, << "!" >>, << "$" >> },
        c1 \in Corners, sep \in { << >>, << ":" >> }, c2 \in Corners }

A1Ranges ==
    { n \o << "!" >> \o s : n \in Names, s \in Spans }
    \cup { n \o s : n \in { << >>, << "S" >> },
                    s \in { x \in Spans : "!" \notin Range(x) } }

---------------------------------------------------------------------------
(* The resolver on its own: parseA1ToGridRange and getSheetIdByName called *)
(* with a Sheets client.                                                   *)

ResolverInit ==
    /\ op \in { "parseA1ToGridRange", "getSheetIdByName" }
    /\ \/ op = "parseA1ToGridRange" /\ a1Range \in A1Ranges /\ target = << >>
       \/ op = "getSheetIdByName" /\ a1Range = << >>
          /\ target \in Names \cup { << "'", "S", "'" >>, << "s" >> }
    /\ pc = "call"
    /\ req = IdleRequest
    /\ rangeRaw = << >>
    /\ token = << >>
    /\ calls = << >>
    /\ metaSeen = NoValue
    /\ ret = NoValue
    /\ resp = NoValue
    /\ nresp = 0
    /\ letters = << >>
    /\ colIndex = -1

\* getSheetIdByName up to its await
LookupCall ==
    /\ pc = "call"
    /\ op = "getSheetIdByName"
    /\ calls' = Append(calls, MetaFetch(target))
    /\ pc' = "await_meta"
    /\ UNCHANGED << op, req, a1Range, target, rangeRaw, token, metaSeen, ret,
                    resp, nresp, letters, colIndex >>

\* getSheetIdByName after its await
LookupReturns ==
    /\ pc = "await_meta"
    /\ op = "getSheetIdByName"
    /\ \E m \in MetaResponses :
        /\ metaSeen' = m
        /\ calls' = Settle(calls, m.kind)
        /\ ret' = getSheetIdByName(m, target)
    /\ pc' = "done"
    /\ UNCHANGED << op, req, a1Range, target, rangeRaw, token, resp, nresp,
                    letters, colIndex >>

\* parseA1ToGridRange up to its await, or to its first throw
ParseCall ==
    /\ pc = "call"
    /\ op = "parseA1ToGridRange"
    /\ LET p == ParseSync(a1Range)
       IN  IF p.throws
           THEN /\ ret' = Throw(p.err)
                /\ pc' = "done"
                /\ UNCHANGED << target, rangeRaw, calls >>
           ELSE /\ target' = p.sheetName
                /\ rangeRaw' = p.rangePartRaw
                /\ calls' = Append(calls, MetaFetch(p.sheetName))
                /\ pc' = "await_meta"
                /\ UNCHANGED ret
    /\ UNCHANGED << op, req, a1Range, token, metaSeen, resp, nresp, letters,
                    colIndex >>

\* parseA1ToGridRange after its await
ParseReturns ==
    /\ pc = "await_meta"
    /\ op = "parseA1ToGridRange"
    /\ \E m \in MetaResponses :
        /\ metaSeen' = m
        /\ calls' = Settle(calls, m.kind)
        /\ ret' = ParseResume(m, target, rangeRaw)
    /\ pc' = "done"
    /\ UNCHANGED << op, req, a1Range, target, rangeRaw, token, resp, nresp,
                    letters, colIndex >>

ResolverNext == LookupCall \/ LookupReturns \/ ParseCall \/ ParseReturns

SpecResolver == ResolverInit /\ [][ResolverNext]_vars

---------------------------------------------------------------------------
(* getBearerToken and getGoogleClients, src/index.js 17-32 *)

Header(value) == [ present |-> TRUE, value |-> value ]

\* req.get('Authorization') is undefined
NoHeader == [ present |-> FALSE, value |-> << >> ]

MsgMissingAuth == "Missing Authorization header"

MsgInvalidAuth == "Invalid Authorization header format"

BearerWord == << "b", "e", "a", "r", "e", "r" >>

\* header.match(/^Bearer\s+(.+)$/i): the word in any case, then the longest
\* run of white space; when the run reaches the end of the text the pattern
\* gives its last character back to the group
MatchBearer(v) ==
    LET n == Len(BearerWord)
        e == RunEnd(v, n + 1, { " " })
    IN  IF /\ Len(v) > n
           /\ toLowerCase(Slice(v, 1, n)) = BearerWord
           /\ e >= n + 1
           /\ (e < Len(v) \/ e >= n + 2)
        THEN [ ok |-> TRUE,
               group |-> IF e < Len(v) THEN Slice(v, e + 1, Len(v))
                         ELSE Slice(v, e, e) ]
        ELSE [ ok |-> FALSE, group |-> << >> ]

\* a plausible slip: any scheme word is taken for Bearer
getBearerToken_AnyScheme(header) ==
    LET sp == FirstPos(header.value, " ")
    IN  IF ~header.present \/ header.value = << >>
        THEN Throw(Err(MsgMissingAuth, << >>))
        ELSE IF sp = 0 \/ sp = Len(header.value)
             THEN Throw(Err(MsgInvalidAuth, << >>))
             ELSE Return(Slice(header.value, sp + 1, Len(header.value)))

\* lines 18-22: !header holds of undefined and of the empty string
getBearerToken(header) ==
    IF ~header.present \/ header.value = << >>
    THEN Throw(Err(MsgMissingAuth, << >>))
    ELSE LET m == MatchBearer(header.value)
         IN  IF ~m.ok THEN Throw(Err(MsgInvalidAuth, << >>))
             ELSE Return(m.group)

---------------------------------------------------------------------------
(* toolHandlers, src/index.js 78-284: each tool with the external calls it *)
(* awaits, in order                                                        *)

ApiBatchUpdate == "sheets.spreadsheets.batchUpdate"

ApiFilesGet == "drive.files.get"

ApiFilesCreate == "drive.files.create"

ApiFilesUpdate == "drive.files.update"

Tool(name, apis) == [ name |-> name, apis |-> apis ]

toolHandlers ==
    << Tool("sheets.create_spreadsheet", << "sheets.spreadsheets.create" >>),
       Tool("sheets.get_values", << "sheets.spreadsheets.values.get" >>),
       Tool("sheets.update_values", << "sheets.spreadsheets.values.update" >>),
       Tool("sheets.append_values", << "sheets.spreadsheets.values.append" >>),
       Tool("sheets.clear_values", << "sheets.spreadsheets.values.clear" >>),
       Tool("sheets.create_sheet", << ApiBatchUpdate >>),
       Tool("sheets.delete_sheet", << ApiGetSpreadsheet, ApiBatchUpdate >>),
       Tool("sheets.get_info", << ApiGetSpreadsheet >>),
       Tool("sheets.format_cells", << ApiGetSpreadsheet, ApiBatchUpdate >>),
       Tool("sheets.batch_update", << ApiBatchUpdate >>),
       Tool("drive_list_files", << "drive.files.list" >>),
       Tool("drive_create_folder", << ApiFilesCreate >>),
       Tool("drive_upload_file", << ApiFilesCreate >>),
       Tool("drive_delete_file", << "drive.files.delete" >>),
       Tool("drive_get_file_info", << ApiFilesGet >>),
       Tool("drive_download_file", << ApiFilesGet, ApiFilesGet >>),
       Tool("drive_share_file", << "drive.permissions.create" >>),
       Tool("drive_move_file", << ApiFilesGet, ApiFilesUpdate >>),
       Tool("drive_rename_file", << ApiFilesUpdate >>) >>

\* the own keys of toolHandlers
RegisteredNames == { toolHandlers[i].name : i \in 1..Len(toolHandlers) }

\* the handlers that resolve a sheet before they update
ResolvingNames == { "sheets.delete_sheet", "sheets.format_cells" }

\* the handlers that only await their calls one after the other
PlainNames == RegisteredNames \ (ResolvingNames \cup { "drive_upload_file" })

ApisOf(name) ==
    LET i == CHOOSE k \in 1..Len(toolHandlers) : toolHandlers[k].name = name
    IN  toolHandlers[i].apis

\* toolHandlers is an object literal: a key it does not own is looked up on
\* Object.prototype.  These are the inherited keys the model carries.
PrototypeNames == { "constructor", "toString", "hasOwnProperty", "__proto__" }

\* toolHandlers[name], line 637
HandlerKind(name) ==
    IF name \in RegisteredNames THEN "own"
    ELSE IF name \in PrototypeNames THEN "inherited"
    ELSE "undefined"

EmptyObject == [ kind |-> "object" ]

\* args || {}
ArgsOrEmpty(args) == IF args = NoValue THEN EmptyObject ELSE args

MsgNotAFunction == "handler is not a function"

MsgNotAnObject == "Cannot convert undefined or null to object"

\* handler(args || {}, clients) for a handler inherited from Object.prototype,
\* called in strict mode with no receiver
PrototypeCall(name, args) ==
    CASE name = "constructor" -> Return(args)
      [] name = "toString" -> Return([ json |-> "[object Undefined]" ])
      [] name = "hasOwnProperty" -> Throw(Err(MsgNotAnObject, << >>))
      [] OTHER -> Throw(Err(MsgNotAFunction, << >>))

---------------------------------------------------------------------------
(* drive_upload_file, src/index.js 203-222 *)

MaxUploadBytes == 10 * 1024 * 1024

MsgTooLarge == "File too large: max 10MB base64 payload supported"

\* Buffer.from(data, 'base64').length for data of n base64 characters: three
\* bytes for every four characters, a last group of two or three characters
\* giving one or two bytes
DecodedLength(n) == (n * 3) \div 4

\* a plausible slip: a payload of exactly the limit is rejected too
TooLarge_Inclusive(bytes) == bytes >= MaxUploadBytes

\* line 205
TooLarge(bytes) == bytes > MaxUploadBytes

---------------------------------------------------------------------------
(* app.post('/mcp/tool'), src/index.js 633-646 *)

\* res.status(code).json({ error: message })
Failure(code, text, arg) ==
    [ status |-> code, body |-> [ error |-> Err(text, arg) ] ]

\* a plausible slip: the result wrapped in an envelope
SendResult_Envelope(result) ==
    [ status |-> 200, body |-> [ result |-> result ] ]

\* res.json(result), line 641
SendResult(result) == [ status |-> 200, body |-> result ]

\* lines 642-645: err.message, or 'Unknown error' when it is empty
Catch(err) ==
    IF err.text = "" /\ err.arg = << >>
    THEN Failure(400, "Unknown error", << >>)
    ELSE Failure(400, err.text, err.arg)

---------------------------------------------------------------------------
(* What the services may answer to the other calls *)

Payloads == { [ data |-> "d1", status |-> 200 ], [ data |-> "d2", status |-> 204 ] }

\* an error of the service with a message, and one without
CallErrors == ServiceErrors \cup { Err("", << >>) }

CallResponses ==
    { [ kind |-> "error", err |-> e, data |-> NoValue ] : e \in CallErrors }
    \cup { [ kind |-> "ok", err |-> NoValue, data |-> p ] : p \in Payloads }

\* what the handler returns once its last call has answered with r
HandlerResult(name, first, r) ==
    CASE name = "drive_delete_file" -> [ success |-> TRUE, status |-> r.data.status ]
      [] name = "drive_download_file" ->
            [ file |-> first.data.data, base64 |-> r.data.data ]
      [] OTHER -> r.data

\* the arguments of the call a handler issues after its first one answered
SecondCallArg(name, args, first) ==
    IF name = "drive_move_file"
    THEN [ args |-> args, removeParents |-> first.data.data ]
    ELSE [ args |-> args, alt |-> "media" ]

---------------------------------------------------------------------------
(* Requests *)

UploadSlack == 2

\* The data argument is carried as its number of base64 characters, the only
\* thing the handler reads of it.  The route is modelled from its entry with
\* the parsed body; the body-size middleware of line 14 is not part of it.

\* the base64 length that decodes to MaxUploadBytes exactly
B64AtLimit == (MaxUploadBytes * 4) \div 3 + 1

DataLens ==
    { 0 } \cup ((B64AtLimit - UploadSlack)..(B64AtLimit + UploadSlack))

HeaderValues ==
    { << >>,
      << "B", "e", "a", "r", "e", "r", " ", "t", "k" >>,
      << "b", "e", "a", "r", "e", "r", " ", " ", "t", " ", "k" >>,
      << "B", "e", "a", "r", "e", "r" >>,
      << "B", "e", "a", "r", "e", "r", "t", "k" >>,
      << "B", "a", "s", "i", "c", " ", "t", "k" >> }

Headers == { NoHeader } \cup { Header(v) : v \in HeaderValues }

FormatSpans ==
    { c1 \o sep \o c2 :
        c1 \in { << "A" >>, << "b", "0" >>, << "A", "Z", "1", "2" >> },
        sep \in { << >>, << ":" >> },
        c2 \in { << "A" >>, << "b", "0" >>, << "A", "Z", "1", "2" >> } }

FormatRanges ==
    { n \o << "!" >> \o s :
        n \in { << "S" >>, << "'", "S", "'" >>, << "'" >> }, s \in FormatSpans }
    \cup { << "b", "0", ":", "b", "0" >>, << "S" >> }

ArgsFor(name) ==
    CASE name = "sheets.format_cells" -> { [ range |-> r ] : r \in FormatRanges }
      [] name = "sheets.delete_sheet" ->
            { [ sheetName |-> t ] : t \in { << "S" >>, << "'", "S", "'" >>, << "s" >> } }
      [] name = "drive_upload_file" -> { [ dataLen |-> n ] : n \in DataLens }
      [] OTHER -> { NoValue, [ id |-> "x" ] }

RequestNames == RegisteredNames \cup PrototypeNames \cup { "", "no.such_tool" }

Requests ==
    UNION { { [ name |-> n, header |-> h, args |-> a ] :
                h \in Headers, a \in ArgsFor(n) } : n \in RequestNames }

---------------------------------------------------------------------------
(* The dispatch endpoint: one request from its arrival to its response *)

Init ==
    /\ req \in Requests
    /\ pc = "recv"
    /\ op = "none"
    /\ a1Range = << >>
    /\ target = << >>
    /\ rangeRaw = << >>
    /\ token = << >>
    /\ calls = << >>
    /\ metaSeen = NoValue
    /\ ret = NoValue
    /\ resp = NoValue
    /\ nresp = 0
    /\ letters = << >>
    /\ colIndex = -1

\* the response r is sent and the request is over
Respond(r) ==
    /\ resp' = r
    /\ nresp' = nresp + 1
    /\ pc' = "done"

\* something was thrown inside the try block
Caught(err) ==
    /\ ret' = Throw(err)
    /\ Respond(Catch(err))

\* the handler returned
Returned(result) ==
    /\ ret' = Return(result)
    /\ Respond(SendResult(result))

\* the handler is reached: the name is truthy, toolHandlers[name] is of the
\* kind given and getGoogleClients has built the clients
Invoked(kind) ==
    /\ pc = "recv"
    /\ req.name # ""
    /\ HandlerKind(req.name) = kind
    /\ getBearerToken(req.header).kind = "return"
    /\ token' = getBearerToken(req.header).val
    /\ op' = req.name

\* line 636
DispatchMissingName ==
    /\ pc = "recv"
    /\ req.name = ""
    /\ Respond(Failure(400, "Missing tool name", << >>))
    /\ UNCHANGED << op, req, a1Range, target, rangeRaw, token, calls, metaSeen,
                    ret, letters, colIndex >>

\* line 638
DispatchUnknownTool ==
    /\ pc = "recv"
    /\ req.name # ""
    /\ HandlerKind(req.name) = "undefined"
    /\ Respond(Failure(404, "Unknown tool: ", req.name))
    /\ UNCHANGED << op, req, a1Range, target, rangeRaw, token, calls, metaSeen,
                    ret, letters, colIndex >>

\* line 639: getGoogleClients throws
DispatchBadCredentials ==
    /\ pc = "recv"
    /\ req.name # ""
    /\ HandlerKind(req.name) # "undefined"
    /\ getBearerToken(req.header).kind = "throw"
    /\ Caught(getBearerToken(req.header).val)
    /\ UNCHANGED << op, req, a1Range, target, rangeRaw, token, calls, metaSeen,
                    letters, colIndex >>

\* line 640 with a handler found on Object.prototype
DispatchPrototype ==
    /\ Invoked("inherited")
    /\ LET out == PrototypeCall(req.name, ArgsOrEmpty(req.args))
       IN  IF out.kind = "throw" THEN Caught(out.val) ELSE Returned(out.val)
    /\ UNCHANGED << req, a1Range, target, rangeRaw, calls, metaSeen, letters,
                    colIndex >>

\* line 640 with a handler that only awaits its calls: up to its first await
DispatchPlain ==
    /\ Invoked("own")
    /\ req.name \in PlainNames
    /\ calls' = << Call(ApisOf(req.name)[1], ArgsOrEmpty(req.args)) >>
    /\ pc' = "await_call"
    /\ UNCHANGED << req, a1Range, target, rangeRaw, metaSeen, ret, resp, nresp,
                    letters, colIndex >>

\* sheets.delete_sheet up to the await of getSheetIdByName
DispatchDeleteSheet ==
    /\ Invoked("own")
    /\ req.name = "sheets.delete_sheet"
    /\ target' = req.args.sheetName
    /\ calls' = << MetaFetch(req.args.sheetName) >>
    /\ pc' = "await_meta"
    /\ UNCHANGED << req, a1Range, rangeRaw, metaSeen, ret, resp, nresp, letters,
                    colIndex >>

\* sheets.format_cells up to the await inside parseA1ToGridRange, or to the
\* throw before it
DispatchFormatCells ==
    /\ Invoked("own")
    /\ req.name = "sheets.format_cells"
    /\ a1Range' = req.args.range
    /\ LET p == ParseSync(req.args.range)
       IN  IF p.throws
           THEN /\ Caught(p.err)
                /\ UNCHANGED << target, rangeRaw, calls >>
           ELSE /\ target' = p.sheetName
                /\ rangeRaw' = p.rangePartRaw
                /\ calls' = << MetaFetch(p.sheetName) >>
                /\ pc' = "await_meta"
                /\ UNCHANGED << ret, resp, nresp >>
    /\ UNCHANGED << req, metaSeen, letters, colIndex >>

\* drive_upload_file up to its await, or to the throw before it
DispatchUpload ==
    /\ Invoked("own")
    /\ req.name = "drive_upload_file"
    /\ LET bytes == DecodedLength(req.args.dataLen)
       IN  IF TooLarge(bytes)
           THEN /\ Caught(Err(MsgTooLarge, << >>))
                /\ UNCHANGED calls
           ELSE /\ calls' = << Call(ApiFilesCreate, [ bytes |-> bytes ]) >>
                /\ pc' = "await_call"
                /\ UNCHANGED << ret, resp, nresp >>
    /\ UNCHANGED << req, a1Range, target, rangeRaw, metaSeen, letters, colIndex >>

\* what the handler passes to batchUpdate once the sheet is resolved
UpdateArg(name, resolved) ==
    IF name = "sheets.delete_sheet"
    THEN [ deleteSheet |-> [ sheetId |-> resolved ] ]
    ELSE [ repeatCell |-> [ range |-> resolved ] ]

\* the metadata fetch of a resolving handler settles: the handler goes on to
\* its batchUpdate, or what was thrown reaches the catch
MetaReturns ==
    /\ pc = "await_meta"
    /\ op \in ResolvingNames
    /\ \E m \in MetaResponses :
        LET out == IF op = "sheets.delete_sheet"
                   THEN getSheetIdByName(m, target)
                   ELSE ParseResume(m, target, rangeRaw)
        IN  /\ metaSeen' = m
            /\ IF out.kind = "throw"
               THEN /\ calls' = Settle(calls, m.kind)
                    /\ Caught(out.val)
               ELSE /\ calls' = Append(Settle(calls, m.kind),
                                       Call(ApiBatchUpdate, UpdateArg(op, out.val)))
                    /\ pc' = "await_call"
                    /\ UNCHANGED << ret, resp, nresp >>
    /\ UNCHANGED << op, req, a1Range, target, rangeRaw, token, letters, colIndex >>

\* an awaited call settles: it throws into the catch, or the handler issues
\* its next call, or the handler returns
CallReturns ==
    /\ pc = "await_call"
    /\ \E r \in CallResponses :
        IF r.kind = "error"
        THEN /\ calls' = Settle(calls, "error")
             /\ Caught(r.err)
             /\ UNCHANGED metaSeen
        ELSE IF Len(calls) < Len(ApisOf(op))
        THEN /\ metaSeen' = r
             /\ calls' = Append(Settle(calls, "ok"),
                                Call(ApisOf(op)[Len(calls) + 1],
                                     SecondCallArg(op, ArgsOrEmpty(req.args), r)))
             /\ UNCHANGED << pc, ret, resp, nresp >>
        ELSE /\ calls' = Settle(calls, "ok")
             /\ Returned(HandlerResult(op, metaSeen, r))
             /\ UNCHANGED metaSeen
    /\ UNCHANGED << op, req, a1Range, target, rangeRaw, token, letters, colIndex >>

Next ==
    \/ DispatchMissingName
    \/ DispatchUnknownTool
    \/ DispatchBadCredentials
    \/ DispatchPrototype
    \/ DispatchPlain
    \/ DispatchDeleteSheet
    \/ DispatchFormatCells
    \/ DispatchUpload
    \/ MetaReturns
    \/ CallReturns

Spec == Init /\ [][Next]_vars

---------------------------------------------------------------------------
(* The column codec on its own: every letter sequence of length            *)
(* 1..MaxLetters is decoded.                                               *)

CodecInit ==
    /\ letters \in SeqsOver(Range(UpperAlphabet), 1, MaxLetters)
    /\ colIndex = -1
    /\ pc = "codec_call"
    /\ op = "columnLettersToIndex"
    /\ req = IdleRequest
    /\ a1Range = << >>
    /\ target = << >>
    /\ rangeRaw = << >>
    /\ token = << >>
    /\ calls = << >>
    /\ metaSeen = NoValue
    /\ ret = NoValue
    /\ resp = NoValue
    /\ nresp = 0

CodecApply ==
    /\ pc = "codec_call"
    /\ colIndex' = columnLettersToIndex(letters)
    /\ pc' = "codec_done"
    /\ UNCHANGED << op, req, a1Range, target, rangeRaw, token, calls, metaSeen,
                    ret, resp, nresp, letters >>

CodecNext == CodecApply

SpecCodec == CodecInit /\ [][CodecNext]_vars

---------------------------------------------------------------------------
(* Reference notions the codec is compared with *)

RECURSIVE Pow26(_)
Pow26(k) == IF k = 0 THEN 1 ELSE 26 * Pow26(k - 1)

RECURSIVE PlaceSum(_, _)
\* the bijective base-26 value: sum of (1-based letter) * 26^(places to the right)
PlaceSum(ls, i) ==
    IF i > Len(ls) THEN 0
    ELSE PosIn(ls[i], UpperAlphabet) * Pow26(Len(ls) - i) + PlaceSum(ls, i + 1)

BijectiveValue(ls) == PlaceSum(ls, 1)

\* the next letter sequence in sequence order (shorter first, then alphabetical)
RECURSIVE SuccLetters(_)
SuccLetters(ls) ==
    IF ls = << >> THEN << "A" >>
    ELSE LET n == Len(ls)
             last == ls[n]
         IN  IF last # "Z"
             THEN [ ls EXCEPT ![n] = UpperAlphabet[PosIn(last, UpperAlphabet) + 1] ]
             ELSE Append(SuccLetters(SubSeq(ls, 1, n - 1)), "A")

\* C2: for every letter sequence of length 1..3 the decoded index is the
\* bijective base-26 value minus 1, the next sequence in order decodes to a
\* strictly larger index, and A, Z, AA, AZ, BA decode to 0, 25, 26, 51, 52.
C2_CodecIsBijectiveBase26 ==
    pc = "codec_done" =>
        /\ colIndex = BijectiveValue(letters) - 1
        /\ colIndex >= 0
        /\ columnLettersToIndex(SuccLetters(letters)) > colIndex
        /\ (letters = << "A" >> => colIndex = 0)
        /\ (letters = << "Z" >> => colIndex = 25)
        /\ (letters = << "A", "A" >> => colIndex = 26)
        /\ (letters = << "A", "Z" >> => colIndex = 51)
        /\ (letters = << "B", "A" >> => colIndex = 52)

\* a three-letter sequence ending in a carry has been decoded
C2_Witness ==
    /\ pc = "codec_done"
    /\ letters = << "A", "Z", "Z" >>
    /\ colIndex = 1377

---------------------------------------------------------------------------
(* Reference notions the resolver is compared with *)

IsLetter(c) == IsUpper(c) \/ IsLower(c)

\* the text before the first "!" of a range reference
NameOf(a1) == Slice(a1, 1, FirstPos(a1, "!") - 1)

\* the text after the first "!" of a range reference
SpanOf(a1) == Slice(a1, FirstPos(a1, "!") + 1, Len(a1))

\* the ways to cut a span into <letters><digits>:<letters><digits>: letters
\* 1..i, digits i+1..j, the colon at j+1, letters j+2..k, digits k+1..Len
CornerCuts(span) ==
    LET n == Len(span)
    IN  { cut \in (1..n) \X (1..n) \X (1..n) :
            /\ cut[1] < cut[2] /\ cut[2] + 1 < cut[3] /\ cut[3] < n
            /\ \A x \in 1..cut[1] : IsLetter(span[x])
            /\ \A x \in (cut[1] + 1)..cut[2] : IsDigit(span[x])
            /\ span[cut[2] + 1] = ":"
            /\ \A x \in (cut[2] + 2)..cut[3] : IsLetter(span[x])
            /\ \A x \in (cut[3] + 1)..n : IsDigit(span[x]) }

IsTwoCorner(span) == CornerCuts(span) # {}

RECURSIVE Pow10(_)
Pow10(k) == IF k = 0 THEN 1 ELSE 10 * Pow10(k - 1)

RECURSIVE DecimalSum(_, _)
DecimalSum(ds, i) ==
    IF i > Len(ds) THEN 0
    ELSE (PosIn(ds[i], Digits) - 1) * Pow10(Len(ds) - i) + DecimalSum(ds, i + 1)

\* the number a string of decimal digits denotes
DecimalValue(ds) == DecimalSum(ds, 1)

\* a name with one pair of surrounding single quotes removed if present
Unquoted(name) ==
    IF Len(name) >= 2 /\ name[1] = "'" /\ name[Len(name)] = "'"
    THEN Slice(name, 2, Len(name) - 1)
    ELSE name

\* the positions of the fetched sheets that carry the title
Titled(meta, title) ==
    IF meta.kind = "ok" /\ meta.hasSheets
    THEN { i \in 1..Len(meta.sheets) :
             meta.sheets[i].hasProps /\ meta.sheets[i].title = title }
    ELSE {}

\* v is the id of the first fetched sheet that carries the title
IsFirstTitledId(meta, title, v) ==
    \E i \in Titled(meta, title) :
        /\ \A j \in Titled(meta, title) : i <= j
        /\ v = meta.sheets[i].sheetId

ParseDone == pc = "done" /\ op = "parseA1ToGridRange"

\* C1: a range reference Name!<letters><digits>:<letters><digits>, Name
\* without "!", whose sheet (Name without its surrounding quotes) is among the
\* fetched sheets, resolves to the Grid Range with that sheet's id, start
\* column = index(start letters), end column = index(end letters) + 1, start
\* row = start row number - 1, end row = end row number; inverted and
\* single-cell spans included.
C1_TwoCornerRangeResolved ==
    ( /\ ParseDone
      /\ "!" \in Range(a1Range)
      /\ IsTwoCorner(SpanOf(a1Range))
      /\ Titled(metaSeen, Unquoted(NameOf(a1Range))) # {} )
    => LET span == SpanOf(a1Range)
           cut == CHOOSE c \in CornerCuts(span) : TRUE
           c1 == toUpperCase(Slice(span, 1, cut[1]))
           r1 == Slice(span, cut[1] + 1, cut[2])
           c2 == toUpperCase(Slice(span, cut[2] + 2, cut[3]))
           r2 == Slice(span, cut[3] + 1, Len(span))
       IN  /\ ret.kind = "return"
           /\ IsFirstTitledId(metaSeen, Unquoted(NameOf(a1Range)), ret.val.sheetId)
           /\ ret.val.startColumnIndex = BijectiveValue(c1) - 1
           /\ ret.val.endColumnIndex = BijectiveValue(c2)
           /\ ret.val.startRowIndex = DecimalValue(r1) - 1
           /\ ret.val.endRowIndex = DecimalValue(r2)

\* a quoted sheet name with an inverted span has been resolved against two
\* sheets of that title
C1_Witness ==
    /\ ParseDone
    /\ a1Range = << "'", "S", "'", "!", "A", "Z", "1", "2", ":", "b", "0" >>
    /\ metaSeen.kind = "ok"
    /\ metaSeen.sheets = << Sheet(<< "S" >>, 7), Sheet(<< "S" >>, 0) >>
    /\ ret = Return(GridRange(7, 11, 0, 51, 2))

IsMalformedRange(outcome) ==
    /\ outcome.kind = "throw"
    /\ outcome.val.text \in { MsgBadRange, MsgNoSheetName }

\* C3: a range reference with "!" whose span is not of the two-corner form
\* fails with MalformedRangeError, whatever sheets the spreadsheet's metadata
\* holds (the fetch itself, where one is made, having succeeded).
C3_OpenSpanIsMalformed ==
    ( /\ ParseDone
      /\ "!" \in Range(a1Range)
      /\ ~IsTwoCorner(SpanOf(a1Range))
      /\ metaSeen.kind # "error" )
    => IsMalformedRange(ret)

\* C4: a range reference without "!" fails with MalformedRangeError ("range
\* must include sheet name") and no metadata fetch is issued for it.
C4_NoBangFailsBeforeFetch ==
    ( op = "parseA1ToGridRange" /\ "!" \notin Range(a1Range) )
    => /\ calls = << >>
       /\ pc = "done" => ret = Throw(Err(MsgNoSheetName, << >>))

\* a well-formed span without a sheet name has been rejected
C4_Witness ==
    /\ ParseDone
    /\ a1Range = << "A", "Z", "1", "2", ":", "b", "0" >>
    /\ ret.kind = "throw"
    /\ calls = << >>

\* C7: once the metadata is fetched, Sheet Lookup returns the id of the first
\* sheet whose title equals the target exactly, and throws "Sheet not found"
\* exactly when no fetched sheet has that title (an absent list included).
C7_LookupFirstExactTitle ==
    ( pc = "done" /\ op = "getSheetIdByName" /\ metaSeen.kind = "ok" )
    => /\ ret.kind = "throw" <=> Titled(metaSeen, target) = {}
       /\ ret.kind = "throw" => ret.val = Err(MsgSheetNotFound, target)
       /\ ret.kind = "return" => IsFirstTitledId(metaSeen, target, ret.val)

\* the second of two sheets titled alike is passed over
C7_Witness ==
    /\ pc = "done"
    /\ op = "getSheetIdByName"
    /\ target = << "S" >>
    /\ metaSeen.kind = "ok"
    /\ metaSeen.sheets = << Sheet(<< "S" >>, 7), Sheet(<< "S" >>, 0) >>
    /\ ret = Return(7)

\* a lookup of a title in the wrong case has failed
C7_WitnessNotFound ==
    /\ pc = "done"
    /\ op = "getSheetIdByName"
    /\ target = << "s" >>
    /\ metaSeen.kind = "ok"
    /\ metaSeen.sheets = << Sheet(<< "S" >>, 7) >>
    /\ ret = Throw(Err(MsgSheetNotFound, << "s" >>))

---------------------------------------------------------------------------
(* Reference notions the dispatch endpoint is compared with *)

\* the header value reads Bearer, in any case, then white space, then a token
HasBearerShape(v) ==
    \E k \in 7..(Len(v) - 1) :
        /\ toLowerCase(Slice(v, 1, 6)) = BearerWord
        /\ \A x \in 7..k : IsSpace(v[x])

\* the text that follows Bearer and the white space after it
TokenAfterBearer(v) ==
    LET k == CHOOSE x \in 7..Len(v) :
                 /\ ~IsSpace(v[x])
                 /\ \A y \in 7..(x - 1) : IsSpace(v[y])
    IN  Slice(v, k, Len(v))

\* the request was refused before any handler ran or any call was made
RefusedWith(r) == pc = "done" /\ resp = r /\ op = "none" /\ calls = << >>

Dispatched == pc # "recv" /\ req.name \in RegisteredNames

\* C5: the dispatch of a non-empty name that is no registered tool answers
\* "unknown tool"; no handler runs and no external call is made.
C5_UnregisteredNameIsUnknown ==
    ( pc = "done" /\ req.name # "" /\ req.name \notin RegisteredNames )
    => RefusedWith(Failure(404, "Unknown tool: ", req.name))

\* C6 as stated: for a registered tool an absent header fails as missing, a
\* present one that is not "Bearer <token>" as malformed, neither reaching the
\* handler or a service; otherwise the handler's clients carry the token.
C6_AbsentOrMalformedHeader ==
    Dispatched =>
        /\ ~req.header.present => RefusedWith(Failure(400, MsgMissingAuth, << >>))
        /\ ( req.header.present /\ ~HasBearerShape(req.header.value) )
           => RefusedWith(Failure(400, MsgInvalidAuth, << >>))
        /\ ( req.header.present /\ HasBearerShape(req.header.value) )
           => op = req.name /\ token = TokenAfterBearer(req.header.value)

\* C6 as amended: an absent or empty header fails as missing; a non-empty one
\* that is not "Bearer <token>" fails as malformed; neither reaches the
\* handler or a service; otherwise the handler's clients carry the token.
C6_EmptyHeaderIsMissing ==
    Dispatched =>
        /\ ( ~req.header.present \/ req.header.value = << >> )
           => RefusedWith(Failure(400, MsgMissingAuth, << >>))
        /\ ( /\ req.header.present
             /\ req.header.value # << >>
             /\ ~HasBearerShape(req.header.value) )
           => RefusedWith(Failure(400, MsgInvalidAuth, << >>))
        /\ ( req.header.present /\ HasBearerShape(req.header.value) )
           => op = req.name /\ token = TokenAfterBearer(req.header.value)

\* an empty Authorization header has been refused as a missing one
C6_Witness ==
    /\ req.name = "sheets.get_values"
    /\ req.header = Header(<< >>)
    /\ RefusedWith(Failure(400, MsgMissingAuth, << >>))

\* a lower-case scheme with two blanks has given its token, blank included,
\* to a handler that awaits its call
C6_WitnessToken ==
    /\ pc = "await_call"
    /\ req.name = "sheets.get_values"
    /\ req.header.value = << "b", "e", "a", "r", "e", "r", " ", " ", "t", " ", "k" >>
    /\ token = << "t", " ", "k" >>

\* C8: drive_upload_file throws "File too large" before any call when the
\* decoded payload is larger than 10MB, and goes on to its upload call when
\* the payload is at most 10MB.
C8_UploadLimit ==
    op = "drive_upload_file" =>
        LET bytes == DecodedLength(req.args.dataLen)
        IN  /\ bytes > 10 * 1024 * 1024
               => /\ pc = "done"
                  /\ ret = Throw(Err(MsgTooLarge, << >>))
                  /\ calls = << >>
            /\ bytes <= 10 * 1024 * 1024
               => /\ Len(calls) = 1
                  /\ calls[1].api = ApiFilesCreate
                  /\ ret # Throw(Err(MsgTooLarge, << >>))

\* a payload one byte over the limit has been refused
C8_Witness ==
    /\ op = "drive_upload_file"
    /\ DecodedLength(req.args.dataLen) = MaxUploadBytes + 1
    /\ ret = Throw(Err(MsgTooLarge, << >>))
    /\ resp = Failure(400, MsgTooLarge, << >>)

\* C9: a request is answered at most once, and exactly once when its handling
\* is over; what was thrown is answered with a failure carrying the error's
\* message ("Unknown error" for an error without one), what the handler
\* returned is answered with that value as it is.
C9_OneResponse ==
    /\ nresp <= 1
    /\ nresp = 1 <=> pc = "done"
    /\ nresp = 0 <=> resp = NoValue
    /\ ret.kind # "none" => pc = "done"
    /\ ret.kind = "throw" =>
        /\ resp.status = 400
        /\ resp.body = [ error |-> IF ret.val = Err("", << >>)
                                   THEN Err("Unknown error", << >>)
                                   ELSE ret.val ]
    /\ ret.kind = "return" => resp.status = 200 /\ resp.body = ret.val

\* a handler whose second call failed has been answered with that failure
C9_Witness ==
    /\ pc = "done"
    /\ op = "sheets.format_cells"
    /\ Len(calls) = 2
    /\ calls[2].status = "error"
    /\ ret.kind = "throw"
    /\ resp = Failure(400, "The caller does not have permission", << >>)
    /\ nresp = 1

\* the positions of the call log that hold a call of the api
CallsOf(api) == { i \in 1..Len(calls) : calls[i].api = api }

\* the sheet id a batchUpdate argument addresses
AddressedSheet(name, arg) ==
    IF name = "sheets.delete_sheet" THEN arg.deleteSheet.sheetId
    ELSE arg.repeatCell.range.sheetId

\* C10: sheets.format_cells and sheets.delete_sheet issue at most one
\* metadata fetch; a batchUpdate is issued only as the second call, after
\* that fetch has answered, with the id of the first fetched sheet of the
\* wanted title; when the fetch, the lookup or the range validation has
\* failed no batchUpdate is issued.
C10_FetchThenUpdate ==
    op \in ResolvingNames =>
        /\ CallsOf(ApiGetSpreadsheet) \subseteq { 1 }
        /\ CallsOf(ApiBatchUpdate) \subseteq { 2 }
        /\ Len(calls) <= 2
        /\ CallsOf(ApiBatchUpdate) # {} =>
            /\ calls[1].api = ApiGetSpreadsheet
            /\ calls[1].status = "ok"
            /\ calls[1].arg.sheetName = target
            /\ metaSeen.kind = "ok"
            /\ IsFirstTitledId(metaSeen, target, AddressedSheet(op, calls[2].arg))
        /\ ( \/ metaSeen.kind = "error"
             \/ ( metaSeen.kind = "ok" /\ Titled(metaSeen, target) = {} )
             \/ ( ret.kind = "throw"
                  /\ ret.val.text \in { MsgNoSheetName, MsgBadRange, MsgSheetNotFound } ) )
           => CallsOf(ApiBatchUpdate) = {}

\* sheets.format_cells has issued its batchUpdate for the first of two sheets
\* titled alike
C10_Witness ==
    /\ op = "sheets.format_cells"
    /\ pc = "await_call"
    /\ metaSeen.kind = "ok"
    /\ metaSeen.sheets = << Sheet(<< "S" >>, 7), Sheet(<< "S" >>, 0) >>
    /\ Len(calls) = 2
    /\ calls[2].api = ApiBatchUpdate
    /\ calls[2].arg.repeatCell.range.sheetId = 7

\* the corners the pattern took from the span of a resolved range
MatchedCorners == MatchRange(toUpperCase(rangeRaw))

\* the end corner is not before the start corner, by row number and by column
EndNotBeforeStart ==
    /\ DecimalValue(MatchedCorners.r2) >= DecimalValue(MatchedCorners.r1)
    /\ BijectiveValue(MatchedCorners.c2) >= BijectiveValue(MatchedCorners.c1)

\* the rectangle of a returned Grid Range holds a cell at least
NonEmptyWhenOrdered ==
    ( ParseDone /\ ret.kind = "return" /\ EndNotBeforeStart )
    => /\ ret.val.startRowIndex < ret.val.endRowIndex
       /\ ret.val.startColumnIndex < ret.val.endColumnIndex

\* C11: every Grid Range parseA1ToGridRange returns has startRowIndex >= 0
\* and startColumnIndex >= 0, and when the end corner is not before the start
\* corner then startRowIndex < endRowIndex and startColumnIndex <
\* endColumnIndex.
C11_GridRangeBoundsValid ==
    ( ParseDone /\ ret.kind = "return" )
    => /\ ret.val.startRowIndex >= 0
       /\ ret.val.startColumnIndex >= 0
       /\ NonEmptyWhenOrdered

===========================================================================
